---------------------------- MODULE Spec2Model ----------------------------
(***************************************************************************)
(* Model of rust-road-race (src/src/main.rs): the per-frame callback       *)
(* game_logic and its helpers, driven by the rusty_engine frame loop.      *)
(*                                                                         *)
(* Number representation.  The program computes on f32.  The model keeps   *)
(* every position as an integer count of thousandths of a unit (F(n) is    *)
(* the f32 value n.0), the frame time delta_f32 as an integer count of     *)
(* milliseconds and a rotation as an integer count of thousandths of a     *)
(* radian (0.15 is 150), so that speed * dt is exact: 250 units/s * 1 ms   *)
(* is 250 thousandths of a unit.  f32 rounding is not modelled.            *)
(***************************************************************************)
EXTENDS Integers, Sequences, FiniteSets, TLC

VARIABLES
    engine,       \* the rusty_engine Engine the callback borrows each frame
    game_state,   \* the GameState resource
    pc            \* the step of the frame loop that runs next: "sync", "logic",
                  \* "audio"; "panicked" once the logic function has panicked

vars == <<engine, game_state, pc>>

-----------------------------------------------------------------------------
(* Constants of the program *)

PLAYER_SPEED == 250
ROAD_SPEED == 400
NUM_LINES == 10
NUM_OBSTACLES == 3
INITIAL_HEALTH == 5
PLAYER_NAME == "Colin"

\* The f32 value n.0 in thousandths
F(n) == n * 1000

\* u8 arithmetic wraps modulo 2^8
U8(n) == n % 256

-----------------------------------------------------------------------------
(* Bounds of the model and the input domains of a frame *)

\* Longest batch of collision events the engine hands to one frame
MaxBatch == 2

\* Frame times in milliseconds (delta_f32 = 0.0 and 1.25)
DtSet == {0, 1250}

\* The values thread_rng().gen_range(800.0..1600.0) and
\* thread_rng().gen_range(-300.0..300.0) are sampled at
RandX == {F(800)}
RandY == {F(-300)}

\* The same ranges sampled at both ends (1599.999 and 299.999 are the
\* largest values of the half-open ranges on the grid of thousandths)
RandXWide == {F(800), F(1600) - 1}
RandYWide == {F(-300), F(300) - 1}

\* Frame times of the road runs: 0.0, 1.25 and 3.75 seconds (at 3.75 s the
\* road moves 1500.0 in one frame)
DtRoad == {0, 1250, 3750}

\* The four states of the Up and Down keys
KeyStates == [Up : BOOLEAN, Down : BOOLEAN]

\* What startup has created: the player sprite, the health text, the road
\* lines and obstacles.  main creates all of them
FullSetup == [player |-> TRUE, health_text |-> TRUE, road |-> TRUE]
Setups == [player : BOOLEAN, health_text : BOOLEAN, road : BOOLEAN]

\* Collision events the engine reports: pairs of labels and the phase
EventKinds ==
    { [pair |-> <<PLAYER_NAME, "obstacle0">>, state |-> "Begin"],
      [pair |-> <<"obstacle1", PLAYER_NAME>>, state |-> "Begin"],
      [pair |-> <<PLAYER_NAME, "obstacle0">>, state |-> "End"],
      [pair |-> <<"obstacle0", "obstacle1">>, state |-> "Begin"] }

Batches == UNION { [1..n -> EventKinds] : n \in 0..MaxBatch }

-----------------------------------------------------------------------------
(* Helpers of the standard library and of the engine, by what they do *)

\* str::starts_with
StartsWith(s, prefix) ==
    /\ Len(s) >= Len(prefix)
    /\ SubSeq(s, 1, Len(prefix)) = prefix

\* format!("roadline{}", i), format!("obstacle{}", i), format!("Health: {}", n)
FormatLabel(prefix, i) == prefix \o ToString(i)

\* Variant: only the first label of the pair is compared
EitherContainsFirst(pair, label) == pair[1] = label

\* CollisionPair::either_contains
EitherContains(pair, label) == pair[1] = label \/ pair[2] = label

\* CollisionState::is_end
IsEnd(state) == state = "End"

\* Game::add_sprite / Sprite::new: a sprite at the origin, not rotated
NewSprite(label) ==
    [label |-> label, translation |-> [x |-> 0, y |-> 0], rotation |-> 0]

\* Engine::add_text: the text is inserted under its label (replacing any
\* text of that label); text_log records the call
AddText(eng, label, value) ==
    [eng EXCEPT
        !.texts = [l \in DOMAIN eng.texts \cup {label} |->
                      IF l = label THEN value ELSE eng.texts[l]],
        !.text_log = Append(@, label)]

\* AudioManager::play_sfx, stop_music: queued for the engine's audio system
PlaySfx(eng, preset) == [eng EXCEPT !.sfx_queue = Append(@, preset)]
StopMusic(eng) == [eng EXCEPT !.music_queue = Append(@, "stop")]

-----------------------------------------------------------------------------
(* main: the world before the first frame *)

RoadlineLabels == { FormatLabel("roadline", i) : i \in 0..(NUM_LINES - 1) }
ObstacleLabels == { FormatLabel("obstacle", i) : i \in 0..(NUM_OBSTACLES - 1) }

\* add_player
AddPlayer(label) ==
    [NewSprite(label) EXCEPT !.translation.x = F(-500)]

\* create_road_lines: line i at -600.0 + 150.0 * i
CreateRoadLine(i) ==
    [NewSprite(FormatLabel("roadline", i)) EXCEPT
        !.translation.x = F(-600) + F(150) * i]

\* add_obstacles: obstacle i at a random place right of the screen
AddObstacle(i, rx, ry) ==
    [NewSprite(FormatLabel("obstacle", i)) EXCEPT
        !.translation = [x |-> rx, y |-> ry]]

InitialSprites(rng) ==
    [l \in {PLAYER_NAME} \cup RoadlineLabels \cup ObstacleLabels |->
        IF l = PLAYER_NAME THEN AddPlayer(l)
        ELSE IF l \in RoadlineLabels
             THEN CreateRoadLine(CHOOSE i \in 0..(NUM_LINES - 1) :
                                     FormatLabel("roadline", i) = l)
             ELSE LET i == CHOOSE j \in 0..(NUM_OBSTACLES - 1) :
                               FormatLabel("obstacle", j) = l
                  IN AddObstacle(i, rng[l][1], rng[l][2])]

\* The engine main hands to game.run
MainEngine(rng) ==
    [sprites |-> InitialSprites(rng),
     texts |-> [l \in {"player_message", "health_message"} |->
                  IF l = "player_message" THEN PLAYER_NAME
                  ELSE FormatLabel("Health: ", INITIAL_HEALTH)],
     text_log |-> <<>>,
     keyboard_state |-> [Up |-> FALSE, Down |-> FALSE],
     delta_f32 |-> 0,
     collision_events |-> <<>>,
     sfx_queue |-> <<>>,
     music_queue |-> <<"play">>]

\* The engine of a startup that has created only what setup names
SetupEngine(eng, setup) ==
    LET kept == { l \in DOMAIN eng.sprites :
                    IF l = PLAYER_NAME THEN setup.player ELSE setup.road }
        shown == { l \in DOMAIN eng.texts :
                    l = "health_message" => setup.health_text }
    IN [eng EXCEPT !.sprites = [l \in kept |-> eng.sprites[l]],
                   !.texts = [l \in shown |-> eng.texts[l]]]

\* The state game.run starts from, the random places of the obstacles drawn
\* from randx and randy, startup being one of setups
InitOver(randx, randy, setups) ==
    /\ \E rng \in [ObstacleLabels -> randx \X randy], setup \in setups :
          engine = SetupEngine(MainEngine(rng), setup)
    /\ game_state = [player_name |-> PLAYER_NAME,
                     health_amount |-> INITIAL_HEALTH,
                     lost |-> FALSE]
    /\ pc = "sync"

Init == InitOver(RandX, RandY, {FullSetup})

-----------------------------------------------------------------------------
(* handle_keyboard *)

\* Variant: Down is looked at only when Up is not held (else if)
DirectionElseIf(keyboard_state) ==
    IF keyboard_state.Up THEN 1
    ELSE IF keyboard_state.Down THEN -1 ELSE 0

\* The direction the keys resolve to
Direction(keyboard_state) ==
    LET d0 == 0
        d1 == IF keyboard_state.Up THEN d0 + 1 ELSE d0
        d2 == IF keyboard_state.Down THEN d1 - 1 ELSE d1
    IN d2

\* Variant: the player moves at the speed of the road
MovePlayerRoadSpeed(player, direction, dt) ==
    [player EXCEPT
        !.translation.y = @ + direction * ROAD_SPEED * dt,
        !.rotation = direction * 150]

\* The player sprite after the move: rotation is direction * 0.15
MovePlayer(player, direction, dt) ==
    [player EXCEPT
        !.translation.y = @ + direction * PLAYER_SPEED * dt,
        !.rotation = direction * 150]

\* Variant: only the upper edge is tested
OutOfBoundsUpperOnly(y) == y > F(360)

\* The out-of-bounds test on the player's y
OutOfBounds(y) == y < F(-360) \/ y > F(360)

\* Variant: the bounds test reads the position before the move
HandleKeyboardCheckFirst(eng, gs) ==
    LET direction == Direction(eng.keyboard_state)
        before == eng.sprites[gs.player_name]
        player == MovePlayer(before, direction, eng.delta_f32)
    IN [engine |-> [eng EXCEPT !.sprites[gs.player_name] = player],
        game_state |-> IF OutOfBounds(before.translation.y)
                       THEN [gs EXCEPT !.health_amount = 0]
                       ELSE gs]

\* handle_keyboard(engine, game_state): the pair after the call
HandleKeyboard(eng, gs) ==
    LET direction == Direction(eng.keyboard_state)
        player == MovePlayer(eng.sprites[gs.player_name], direction, eng.delta_f32)
    IN [engine |-> [eng EXCEPT !.sprites[gs.player_name] = player],
        game_state |-> IF OutOfBounds(player.translation.y)
                       THEN [gs EXCEPT !.health_amount = 0]
                       ELSE gs]

-----------------------------------------------------------------------------
(* move_road_objects *)

\* Variant: every sprite is moved as a road line (no test of the label)
MoveRoadLineAnyLabel(sprite, dt) ==
    LET x == sprite.translation.x - ROAD_SPEED * dt
    IN [sprite EXCEPT
           !.translation.x = IF x < F(-675) THEN x + F(1500) ELSE x]

\* Variant: the wrap test reads x before the translation
MoveRoadLineTestFirst(sprite, dt) ==
    IF StartsWith(sprite.label, "roadline")
    THEN LET x == sprite.translation.x
         IN [sprite EXCEPT
                !.translation.x = IF x < F(-675)
                                  THEN x - ROAD_SPEED * dt + F(1500)
                                  ELSE x - ROAD_SPEED * dt]
    ELSE sprite

\* Variant: a wrapped line comes back 1350.0 further right, not 1500.0
MoveRoadLineShortWrap(sprite, dt) ==
    IF StartsWith(sprite.label, "roadline")
    THEN LET x == sprite.translation.x - ROAD_SPEED * dt
         IN [sprite EXCEPT
                !.translation.x = IF x < F(-675) THEN x + F(1350) ELSE x]
    ELSE sprite

\* The road-line branch of the loop body
MoveRoadLine(sprite, dt) ==
    IF StartsWith(sprite.label, "roadline")
    THEN LET x == sprite.translation.x - ROAD_SPEED * dt
         IN [sprite EXCEPT
                !.translation.x = IF x < F(-675) THEN x + F(1500) ELSE x]
    ELSE sprite

\* Variant: the respawn test reads x before the translation
MoveObstacleTestFirst(sprite, dt, rng) ==
    IF StartsWith(sprite.label, "obstacle")
    THEN LET x == sprite.translation.x
         IN IF x < F(-800)
            THEN [sprite EXCEPT !.translation = [x |-> rng[sprite.label][1],
                                                 y |-> rng[sprite.label][2]]]
            ELSE [sprite EXCEPT !.translation.x = x - ROAD_SPEED * dt]
    ELSE sprite

\* The obstacle branch of the loop body; rng[l] is the pair of values
\* thread_rng gives when the sprite labelled l is respawned
MoveObstacle(sprite, dt, rng) ==
    IF StartsWith(sprite.label, "obstacle")
    THEN LET x == sprite.translation.x - ROAD_SPEED * dt
         IN IF x < F(-800)
            THEN [sprite EXCEPT !.translation = [x |-> rng[sprite.label][1],
                                                 y |-> rng[sprite.label][2]]]
            ELSE [sprite EXCEPT !.translation.x = x]
    ELSE sprite

\* move_road_objects(engine): the loop over every sprite
MoveRoadObjects(eng, rng) ==
    [eng EXCEPT !.sprites =
        [l \in DOMAIN eng.sprites |->
            MoveObstacle(MoveRoadLine(eng.sprites[l], eng.delta_f32),
                         eng.delta_f32, rng)]]

-----------------------------------------------------------------------------
(* handle_collisions *)

\* An event the loop does not skip
Qualifies(event, gs) ==
    ~(~EitherContains(event.pair, gs.player_name) \/ IsEnd(event.state))

\* Variant: the decrement is not guarded by health_amount > 0
HandleEventNoGuard(st, event) ==
    IF ~Qualifies(event, st.game_state) THEN st
    ELSE LET h == U8(st.game_state.health_amount - 1)
         IN [engine |-> PlaySfx(
                           [st.engine EXCEPT !.texts["health_message"] =
                               FormatLabel("Health: ", h)],
                           "Impact3"),
             game_state |-> [st.game_state EXCEPT !.health_amount = h]]

\* Variant: the decrement plays no sound
HandleEventSilent(st, event) ==
    IF ~Qualifies(event, st.game_state) THEN st
    ELSE IF st.game_state.health_amount > 0
         THEN LET h == U8(st.game_state.health_amount - 1)
              IN [engine |-> [st.engine EXCEPT !.texts["health_message"] =
                                 FormatLabel("Health: ", h)],
                  game_state |-> [st.game_state EXCEPT !.health_amount = h]]
         ELSE st

\* Variant: the sound is played for every event that qualifies, outside
\* the test of health_amount
HandleEventAlwaysSound(st, event) ==
    IF ~Qualifies(event, st.game_state) THEN st
    ELSE IF st.game_state.health_amount > 0
         THEN LET h == U8(st.game_state.health_amount - 1)
              IN [engine |-> PlaySfx(
                                [st.engine EXCEPT !.texts["health_message"] =
                                    FormatLabel("Health: ", h)],
                                "Impact3"),
                  game_state |-> [st.game_state EXCEPT !.health_amount = h]]
         ELSE [st EXCEPT !.engine = PlaySfx(st.engine, "Impact3")]

\* Variant: the decrement does not rewrite the health text
HandleEventNoText(st, event) ==
    IF ~Qualifies(event, st.game_state) THEN st
    ELSE IF st.game_state.health_amount > 0
         THEN LET h == U8(st.game_state.health_amount - 1)
              IN [engine |-> PlaySfx(st.engine, "Impact3"),
                  game_state |-> [st.game_state EXCEPT !.health_amount = h]]
         ELSE st

\* The body of the loop for one event
HandleEvent(st, event) ==
    IF ~Qualifies(event, st.game_state) THEN st
    ELSE IF st.game_state.health_amount > 0
         THEN LET h == U8(st.game_state.health_amount - 1)
              IN [engine |-> PlaySfx(
                                [st.engine EXCEPT !.texts["health_message"] =
                                    FormatLabel("Health: ", h)],
                                "Impact3"),
                  game_state |-> [st.game_state EXCEPT !.health_amount = h]]
         ELSE st

RECURSIVE DrainEvents(_, _)
\* The for loop over collision_events.drain(..), in order
DrainEvents(st, events) ==
    IF events = <<>> THEN st
    ELSE DrainEvents(HandleEvent(st, Head(events)), Tail(events))

\* Variant: the loop reads the events and leaves them in the list (iter())
HandleCollisionsIter(eng, gs) ==
    DrainEvents([engine |-> eng, game_state |-> gs], eng.collision_events)

\* handle_collisions(engine, game_state): the pair after the call
HandleCollisions(eng, gs) ==
    LET st == DrainEvents([engine |-> eng, game_state |-> gs],
                          eng.collision_events)
    IN [engine |-> [st.engine EXCEPT !.collision_events = <<>>],
        game_state |-> st.game_state]

-----------------------------------------------------------------------------
(* check_health *)

\* Variant: lost is not set
CheckHealthKeepsPlaying(eng, gs) ==
    IF gs.health_amount = 0
    THEN [engine |-> PlaySfx(StopMusic(AddText(eng, "game over", "Game Over")),
                             "Jingle3"),
          game_state |-> gs]
    ELSE [engine |-> eng, game_state |-> gs]

\* Variant: the game ends at the last point of health (<= 1)
CheckHealthAtOne(eng, gs) ==
    IF gs.health_amount <= 1
    THEN [engine |-> PlaySfx(StopMusic(AddText(eng, "game over", "Game Over")),
                             "Jingle3"),
          game_state |-> [gs EXCEPT !.lost = TRUE]]
    ELSE [engine |-> eng, game_state |-> gs]

\* check_health(engine, game_state): the pair after the call
CheckHealth(eng, gs) ==
    IF gs.health_amount = 0
    THEN [engine |-> PlaySfx(StopMusic(AddText(eng, "game over", "Game Over")),
                             "Jingle3"),
          game_state |-> [gs EXCEPT !.lost = TRUE]]
    ELSE [engine |-> eng, game_state |-> gs]

-----------------------------------------------------------------------------------------------------------------------------------------------------
(* game_logic *)

\* engine.sprites.get_mut(game_state.player_name).unwrap() panics
PlayerUnwrapPanics(eng, gs) == gs.player_name \notin DOMAIN eng.sprites

\* engine.texts.get_mut("health_message").unwrap() panics
HealthTextUnwrapPanics(eng) == "health_message" \notin DOMAIN eng.texts

\* Variant: no early return when the game is lost
GameLogicCallNoReturn(eng, gs, rng) ==
    LET a == HandleKeyboard(eng, gs)
        b == MoveRoadObjects(a.engine, rng)
        c == HandleCollisions(b, a.game_state)
        d == CheckHealth(c.engine, c.game_state)
    IN [engine |-> d.engine, game_state |-> d.game_state, panicked |-> FALSE]

\* Variant: a missing player or health text is skipped (if let Some(..))
GameLogicCallLenient(eng, gs, rng) ==
    IF gs.lost
    THEN [engine |-> eng, game_state |-> gs, panicked |-> FALSE]
    ELSE LET a == IF PlayerUnwrapPanics(eng, gs)
                  THEN [engine |-> eng, game_state |-> gs]
                  ELSE HandleKeyboard(eng, gs)
             b == MoveRoadObjects(a.engine, rng)
             c == IF HealthTextUnwrapPanics(b)
                  THEN [engine |-> b, game_state |-> a.game_state]
                  ELSE HandleCollisions(b, a.game_state)
             d == CheckHealth(c.engine, c.game_state)
         IN [engine |-> d.engine, game_state |-> d.game_state,
             panicked |-> FALSE]

\* game_logic(engine, game_state): the pair after the call, or the pair at
\* the unwrap that panicked
GameLogicCall(eng, gs, rng) ==
    IF gs.lost
    THEN [engine |-> eng, game_state |-> gs, panicked |-> FALSE]
    ELSE IF PlayerUnwrapPanics(eng, gs)
    THEN [engine |-> eng, game_state |-> gs, panicked |-> TRUE]
    ELSE LET a == HandleKeyboard(eng, gs)
             b == MoveRoadObjects(a.engine, rng)
         IN IF HealthTextUnwrapPanics(b)
            THEN [engine |-> b, game_state |-> a.game_state,
                  panicked |-> TRUE]
            ELSE LET c == HandleCollisions(b, a.game_state)
                     d == CheckHealth(c.engine, c.game_state)
                 IN [engine |-> d.engine, game_state |-> d.game_state,
                     panicked |-> FALSE]

-----------------------------------------------------------------------------
(* The frame loop of the engine: sync the inputs, run the logic, play audio *)

\* The engine prepares a frame: it sets the key states, the frame time and
\* the collision events of this frame, drawn from keys, dts and batches
EngineFrameOver(keys, dts, batches) ==
    /\ pc = "sync"
    /\ \E ks \in keys, dt \in dts, batch \in batches :
          engine' = [engine EXCEPT
                        !.keyboard_state = ks,
                        !.delta_f32 = dt,
                        !.collision_events = batch]
    /\ pc' = "logic"
    /\ UNCHANGED game_state

EngineFrame == EngineFrameOver(KeyStates, DtSet, Batches)

\* The sprites the obstacle branch draws random numbers for in this frame:
\* the obstacles that leave the screen on the left
RespawnLabels(eng) ==
    { l \in DOMAIN eng.sprites :
        /\ StartsWith(l, "obstacle")
        /\ eng.sprites[l].translation.x - ROAD_SPEED * eng.delta_f32 < F(-800) }

\* The engine runs the logic function of the game, thread_rng drawing from
\* randx and randy; a panic of the logic function ends the process
GameLogicOver(randx, randy) ==
    /\ pc = "logic"
    /\ \E rng \in [RespawnLabels(engine) -> randx \X randy] :
          LET r == GameLogicCall(engine, game_state, rng)
          IN /\ engine' = r.engine
             /\ game_state' = r.game_state
             /\ pc' = IF r.panicked THEN "panicked" ELSE "audio"

GameLogic == GameLogicOver(RandX, RandY)

\* The engine ends the frame: its audio system plays and empties the queues,
\* and the inputs of the frame are dropped (the next sync sets them anew)
EndFrame ==
    /\ pc = "audio"
    /\ engine' = [engine EXCEPT
                     !.sfx_queue = <<>>,
                     !.music_queue = <<>>,
                     !.text_log = <<>>,
                     !.keyboard_state = [Up |-> FALSE, Down |-> FALSE],
                     !.delta_f32 = 0,
                     !.collision_events = <<>>]
    /\ pc' = "sync"
    /\ UNCHANGED game_state

Next == EngineFrame \/ GameLogic \/ EndFrame

Spec == Init /\ [][Next]_vars

\* The road runs: no key is held and nothing collides, the frame times are
\* those of DtRoad and the obstacles are placed at both ends of their ranges
InitRoad == InitOver(RandXWide, RandYWide, {FullSetup})
EngineFrameRoad ==
    EngineFrameOver({[Up |-> FALSE, Down |-> FALSE]}, DtRoad, {<<>>})
GameLogicRoad == GameLogicOver(RandXWide, RandYWide)
NextRoad == EngineFrameRoad \/ GameLogicRoad \/ EndFrame

SpecRoad == InitRoad /\ [][NextRoad]_vars

\* The runs over every startup: the game as in Spec, started with any of
\* the player sprite, the health text and the road objects missing
InitSetup == InitOver(RandX, RandY, Setups)

SpecSetup == InitSetup /\ [][Next]_vars

-----------------------------------------------------------------------------
(* What the properties below read *)

\* The player sprite of an engine
PlayerOf(eng) == eng.sprites[PLAYER_NAME]

\* How often v occurs in a queue
Count(queue, v) == Cardinality({ i \in DOMAIN queue : queue[i] = v })

\* A step taken from such a state is one call of game_logic
InCall == pc = "logic"

\* The direction the spec gives for each of the four key states
TableDirection(ks) ==
    CASE ks.Up /\ ~ks.Down -> 1
      [] ~ks.Up /\ ks.Down -> -1
      [] OTHER -> 0

\* Below -360.0 or above 360.0
BeyondEdge(y) == y < -360000 \/ y > 360000

\* The number of Begin events of a batch whose pair holds the player
BeginWithPlayer(events) ==
    Cardinality({ i \in DOMAIN events :
                    /\ events[i].state = "Begin"
                    /\ PLAYER_NAME \in { events[i].pair[1], events[i].pair[2] } })

\* How often a call created the "Game Over" text, stopped the music and
\* played the game-over sound
GameOverEffects(eng) ==
    << Count(eng.text_log, "game over"),
       Count(eng.music_queue, "stop"),
       Count(eng.sfx_queue, "Jingle3") >>

-----------------------------------------------------------------------------
(* C1: a call of game_logic made when lost is true changes nothing: not     *)
(* health_amount, not lost, not a text, not the position or rotation of a   *)
(* sprite, and it queues no sound, creates no text and stops no music; and  *)
(* lost, once true, stays true in every step.                               *)
C1_LostIsFrozen ==
    [][ /\ (InCall /\ game_state.lost) =>
              /\ game_state' = game_state
              /\ engine' = engine
              /\ engine'.sfx_queue = <<>>
              /\ engine'.music_queue = <<>>
              /\ engine'.text_log = <<>>
        /\ game_state.lost => game_state'.lost ]_vars

\* A call made in the Lost state has returned: keys were held, time had
\* passed and events were waiting, and nothing was queued
C1_Witness ==
    /\ pc = "audio"
    /\ game_state.lost
    /\ engine.sfx_queue = <<>>
    /\ engine.keyboard_state.Up
    /\ engine.delta_f32 > 0
    /\ BeginWithPlayer(engine.collision_events) > 0

(* C2: the game-over effects (the "Game Over" text, the stop of the music,  *)
(* the game-over sound) happen once each in the call that sets lost, and in *)
(* no other call, whatever the batch and the boundary check do.             *)
C2_GameOverOnce ==
    [][ InCall =>
          GameOverEffects(engine') =
             IF ~game_state.lost /\ game_state'.lost
             THEN <<1, 1, 1>> ELSE <<0, 0, 0>> ]_vars

\* The call that ended the game by a collision has returned
C2_Witness ==
    /\ pc = "audio"
    /\ game_state.lost
    /\ engine.sfx_queue = <<"Impact3", "Jingle3">>
    /\ GameOverEffects(engine) = <<1, 1, 1>>

(* C3: in the initial state and after every call, lost is true exactly when *)
(* health_amount is 0.                                                      *)
C3_LostIffNoHealth ==
    game_state.lost <=> (game_state.health_amount = 0)

\* The game was lost by collisions alone, the player within the edges
C3_Witness ==
    /\ pc = "audio"
    /\ game_state.lost
    /\ game_state.health_amount = 0
    /\ ~BeyondEdge(PlayerOf(engine).translation.y)

(* C4: health_amount starts at 5, no step increases it, and it stays within *)
(* 0..5 (the decrement does not wrap the u8).                               *)
C4_HealthBounded ==
    /\ game_state.health_amount = 5
    /\ [][ /\ game_state'.health_amount <= game_state.health_amount
           /\ game_state'.health_amount \in 0..5 ]_vars

\* The last point of health was lost by a decrement
C4_Witness ==
    /\ game_state.health_amount = 0
    /\ engine.texts["health_message"] = "Health: 0"

(* C5: a Playing-state call that leaves the player's y below -360.0 or      *)
(* above 360.0 returns with health_amount 0, whatever it was and whatever   *)
(* the batch holds; the y is the moved one, not clamped.                    *)
C5_BoundaryZeroesHealth ==
    [][ (InCall /\ ~game_state.lost) =>
          LET y == PlayerOf(engine).translation.y
              moved == y + TableDirection(engine.keyboard_state)
                             * 250 * engine.delta_f32
          IN /\ PlayerOf(engine').translation.y = moved
             /\ BeyondEdge(moved) => game_state'.health_amount = 0 ]_vars

\* The player left the road with full health and no collision
C5_Witness ==
    /\ pc = "audio"
    /\ PlayerOf(engine).translation.y < -360000
    /\ engine.texts["health_message"] = "Health: 5"
    /\ game_state.health_amount = 0

(* C6: a Playing-state call with the player within the edges takes k from   *)
(* health_amount, stopping at 0, for k the number of Begin events with the  *)
(* player in the pair; with no such event health_amount and the health text *)
(* stay as they are.                                                        *)
C6_CollisionDecrement ==
    [][ (/\ InCall
         /\ ~game_state.lost
         /\ ~BeyondEdge(PlayerOf(engine').translation.y)) =>
          LET k == BeginWithPlayer(engine.collision_events)
              h == game_state.health_amount
          IN /\ game_state'.health_amount = (IF h >= k THEN h - k ELSE 0)
             /\ k = 0 => engine'.texts["health_message"]
                           = engine.texts["health_message"] ]_vars

\* Two events of one batch have counted
C6_Witness ==
    /\ pc = "audio"
    /\ game_state.health_amount = 3
    /\ engine.sfx_queue = <<"Impact3", "Impact3">>

(* C7, as stated: every call in which health_amount ends lower than it      *)
(* began plays the impact sound.                                            *)
C7_Original ==
    [][ (InCall /\ game_state'.health_amount < game_state.health_amount) =>
          Count(engine'.sfx_queue, "Impact3") > 0 ]_vars

(* C7, amended: every call in which health_amount ends lower than it began  *)
(* with the player within the edges plays the impact sound; a Playing-state *)
(* call that leaves the player beyond an edge plays no impact sound.        *)
C7_ImpactOnCollisionLoss ==
    [][ (InCall /\ ~game_state.lost) =>
          IF BeyondEdge(PlayerOf(engine').translation.y)
          THEN Count(engine'.sfx_queue, "Impact3") = 0
          ELSE game_state'.health_amount < game_state.health_amount =>
                  Count(engine'.sfx_queue, "Impact3") > 0 ]_vars

\* A collision has cost health and its sound is queued
C7_Witness ==
    /\ pc = "audio"
    /\ game_state.health_amount = 4
    /\ engine.sfx_queue = <<"Impact3">>

(* C8, as stated: after every call, in whatever state it was made, the list *)
(* of collision events is empty.                                            *)
C8_Original ==
    pc = "audio" => engine.collision_events = <<>>

(* C8, amended: a Playing-state call leaves the list of collision events    *)
(* empty; a Lost-state call leaves it as it was handed in.                  *)
C8_PlayingCallDrains ==
    [][ InCall =>
          engine'.collision_events =
             IF game_state.lost THEN engine.collision_events ELSE <<>> ]_vars

\* A Playing-state call has drained a batch that held events
C8_Witness ==
    /\ pc = "audio"
    /\ ~game_state.lost
    /\ engine.sfx_queue = <<"Impact3", "Impact3">>
    /\ engine.collision_events = <<>>

(* C9: the direction is +1 with only Up held, -1 with only Down held, 0     *)
(* with both or neither, and it is the direction the move uses.             *)
C9_DirectionTable ==
    [][ (InCall /\ ~game_state.lost) =>
          /\ Direction(engine.keyboard_state)
                = TableDirection(engine.keyboard_state)
          /\ PlayerOf(engine').rotation
                = 150 * TableDirection(engine.keyboard_state) ]_vars

\* A Playing-state call has run with both keys held
C9_Witness ==
    /\ pc = "audio"
    /\ ~game_state.lost
    /\ engine.keyboard_state.Up /\ engine.keyboard_state.Down
    /\ engine.delta_f32 > 0
    /\ PlayerOf(engine).rotation = 0

(* C10: a Playing-state call moves the player's y by d * 250 * dt, sets its *)
(* rotation to d * 0.15 and leaves its x alone, d the resolved direction.   *)
C10_PlayerKinematics ==
    [][ (InCall /\ ~game_state.lost) =>
          LET d == TableDirection(engine.keyboard_state)
              before == PlayerOf(engine)
              after == PlayerOf(engine')
          IN /\ after.translation.y
                  = before.translation.y + d * 250 * engine.delta_f32
             /\ after.rotation = d * 150
             /\ after.translation.x = before.translation.x ]_vars

\* The player is off the middle and a call with no net direction has
\* straightened it
C10_Witness ==
    /\ pc = "audio"
    /\ ~game_state.lost
    /\ PlayerOf(engine).translation.y = 312500
    /\ PlayerOf(engine).rotation = 0
    /\ engine.delta_f32 > 0

-----------------------------------------------------------------------------
(* What the properties of the road read *)

\* The x of road line i
LineX(eng, i) == eng.sprites["roadline" \o ToString(i)].translation.x

\* The labels of the three obstacles
TheObstacles == {"obstacle0", "obstacle1", "obstacle2"}

(* C11: the road lines start at -600.0 + 150.0 * i; a Playing-state call    *)
(* moves each by -400 * dt, and by 1500.0 more exactly when that is below   *)
(* -675.0; with 400 * dt at most 1500.0 every x stays within [-675, 825].   *)
C11_RoadLineWrap ==
    /\ \A i \in 0..9 : LineX(engine, i) = -600000 + 150000 * i
    /\ [][ (InCall /\ ~game_state.lost) =>
             \A i \in 0..9 :
                LET moved == LineX(engine, i) - 400 * engine.delta_f32
                IN LineX(engine', i) =
                      IF moved < -675000 THEN moved + 1500000 ELSE moved ]_vars
    /\ [](\A i \in 0..9 : /\ LineX(engine, i) >= -675000
                          /\ LineX(engine, i) <= 825000)

\* The leftmost line has gone round in a frame of 1.25 s
C11_Witness ==
    /\ pc = "audio"
    /\ engine.delta_f32 = 1250
    /\ LineX(engine, 0) = 400000
    /\ LineX(engine, 1) = -450000 - 500000 + 1500000

(* C12: a Playing-state call moves each obstacle by -400 * dt and keeps its *)
(* y, unless the moved x is below -800.0: then the obstacle gets an x in    *)
(* [800, 1600) and a y in [-300, 300); with 400 * dt at most 1600.0 every   *)
(* obstacle stays at an x in [-800, 1600) and a y in [-300, 300).           *)
C12_ObstacleRecycling ==
    /\ [][ (InCall /\ ~game_state.lost) =>
             \A o \in TheObstacles :
                LET before == engine.sprites[o].translation
                    after == engine'.sprites[o].translation
                    moved == before.x - 400 * engine.delta_f32
                IN IF moved < -800000
                   THEN /\ after.x >= 800000 /\ after.x < 1600000
                        /\ after.y >= -300000 /\ after.y < 300000
                   ELSE after.x = moved /\ after.y = before.y ]_vars
    /\ [](\A o \in TheObstacles :
             LET at == engine.sprites[o].translation
             IN /\ at.x >= -800000 /\ at.x < 1600000
                /\ at.y >= -300000 /\ at.y < 300000)

\* An obstacle has left on the left and come back at the far ends of both
\* ranges, while another one is still on its way
C12_Witness ==
    /\ pc = "audio"
    /\ engine.delta_f32 = 1250
    /\ engine.sprites["obstacle0"].translation = [x |-> 1599999, y |-> 299999]
    /\ engine.sprites["obstacle1"].translation.x = -400001

-----------------------------------------------------------------------------
(* What the properties of startup read *)

\* The player sprite and the health text are in the registries of the engine
HasPlayer(eng) == "Colin" \in DOMAIN eng.sprites
HasHealthText(eng) == "health_message" \in DOMAIN eng.texts

(* C13: a Playing-state call made while the player sprite or the            *)
(* "health_message" text is missing panics: it does not return, and nothing *)
(* runs after it.                                                           *)
C13_MissingSingletonPanics ==
    [][ /\ (/\ InCall
            /\ ~game_state.lost
            /\ (~HasPlayer(engine) \/ ~HasHealthText(engine))) =>
               pc' = "panicked"
        /\ pc = "panicked" => FALSE ]_vars

\* The call has panicked at the health text, after the player was moved
C13_Witness ==
    /\ pc = "panicked"
    /\ HasPlayer(engine)
    /\ ~HasHealthText(engine)
    /\ PlayerOf(engine).translation.y = 312500

\* The label starts with the eight letters of prefix
HasPrefix8(label, prefix) ==
    Len(label) >= 8 /\ SubSeq(label, 1, 8) = prefix

(* C14: in a Playing-state call the step that moves the road touches only   *)
(* sprites whose label starts with "roadline" or "obstacle": those keep     *)
(* their rotation and move left (or wrap, or respawn); every other sprite   *)
(* leaves the call as handle_keyboard left it, so the player's x is -500.0  *)
(* in every state; and a startup without road lines and obstacles is no     *)
(* error: the call returns.                                                 *)
C14_OnlyRoadObjectsMove ==
    /\ [](HasPlayer(engine) => PlayerOf(engine).translation.x = -500000)
    /\ [][ (/\ InCall
            /\ ~game_state.lost
            /\ HasPlayer(engine)
            /\ HasHealthText(engine)) =>
              /\ pc' = "audio"
              /\ DOMAIN engine'.sprites = DOMAIN engine.sprites
              /\ \A l \in DOMAIN engine.sprites :
                    LET handed == HandleKeyboard(engine, game_state)
                                     .engine.sprites[l]
                        after == engine'.sprites[l]
                        moved == handed.translation.x - 400 * engine.delta_f32
                    IN IF HasPrefix8(l, "roadline")
                       THEN /\ after.translation.x \in {moved, moved + 1500000}
                            /\ after.translation.y = handed.translation.y
                            /\ after.rotation = handed.rotation
                       ELSE IF HasPrefix8(l, "obstacle")
                       THEN /\ \/ after.translation.x = moved
                               \/ moved < -800000
                            /\ after.rotation = handed.rotation
                       ELSE after = handed ]_vars

\* The road has moved under a player that has steered up: the leftmost line
\* has gone round, the player's x is where add_player put it
C14_Witness ==
    /\ pc = "audio"
    /\ ~game_state.lost
    /\ engine.delta_f32 = 1250
    /\ HasPlayer(engine)
    /\ PlayerOf(engine).translation = [x |-> -500000, y |-> 312500]
    /\ "roadline0" \in DOMAIN engine.sprites
    /\ engine.sprites["roadline0"].translation.x = 400000

-----------------------------------------------------------------------------
(* What the properties of the health display read *)

\* The health text of an engine
HealthText(eng) == eng.texts["health_message"]

\* "Health: " followed by n
HealthLine(n) == "Health: " \o ToString(n)

(* C15: in a Playing-state call the events that qualify each take one point *)
(* of health and play one impact sound while health_amount is above 0, and  *)
(* do nothing once it is 0 (from the first event on when the boundary check *)
(* has zeroed it): the call plays as many impact sounds as it makes         *)
(* decrements, and the health text shows the value after the last one.      *)
C15_PerEventEffects ==
    [][ (InCall /\ ~game_state.lost) =>
          LET k == BeginWithPlayer(engine.collision_events)
              start == IF BeyondEdge(PlayerOf(engine').translation.y)
                       THEN 0 ELSE game_state.health_amount
              decrements == IF k <= start THEN k ELSE start
          IN /\ game_state'.health_amount = start - decrements
             /\ Count(engine'.sfx_queue, "Impact3") = decrements
             /\ HealthText(engine') =
                   IF decrements > 0 THEN HealthLine(start - decrements)
                   ELSE HealthText(engine) ]_vars

\* The last point of health went in a call that played one impact sound and
\* then the game-over sound, and the text shows 0
C15_Witness ==
    /\ pc = "audio"
    /\ game_state.health_amount = 0
    /\ HealthText(engine) = "Health: 0"
    /\ Count(engine.sfx_queue, "Impact3") = 1
    /\ Len(engine.sfx_queue) = 2

(* C16: whenever health_amount is above 0 the health text reads "Health: " *)
(* followed by health_amount; it reads "Health: 5" at startup, and the     *)
(* only step that changes it is a call in which a collision took a point   *)
(* of health, which leaves the text at the new value.                      *)
C16_HealthDisplayConsistent ==
    /\ HealthText(engine) = HealthLine(INITIAL_HEALTH)
    /\ [](game_state.health_amount > 0 =>
            HealthText(engine) = HealthLine(game_state.health_amount))
    /\ [][ HealthText(engine') # HealthText(engine) =>
             /\ InCall /\ ~game_state.lost
             /\ BeginWithPlayer(engine.collision_events) > 0
             /\ Count(engine'.sfx_queue, "Impact3") > 0
             /\ game_state'.health_amount < game_state.health_amount
             /\ HealthText(engine') = HealthLine(game_state'.health_amount) ]_vars

\* One collision later, with the frame over, the text has followed the health
C16_Witness ==
    /\ pc = "sync"
    /\ game_state.health_amount = 4
    /\ HealthText(engine) = "Health: 4"

(* C17: in the initial state and at the end of every call, a game that is *)
(* not lost has the player within -360 <= y <= 360; the player is beyond  *)
(* an edge only in a lost game, where its y no longer changes.            *)
C17_PlayingInBounds ==
    /\ ~BeyondEdge(PlayerOf(engine).translation.y)
    /\ [](~game_state.lost => ~BeyondEdge(PlayerOf(engine).translation.y))
    /\ [][ game_state.lost =>
             PlayerOf(engine').translation.y = PlayerOf(engine).translation.y ]_vars

\* A lost game with the player above the upper edge, after a further call
\* that returned at once (the game-over sound of the losing call is gone)
C17_Witness ==
    /\ pc = "audio"
    /\ game_state.lost
    /\ PlayerOf(engine).translation.y > 360000
    /\ engine.sfx_queue = <<>>
    /\ engine.keyboard_state.Down

=============================================================================
